---------------------------- MODULE Spec2Model ----------------------------
(***************************************************************************)
(* PawPal scheduling engine (src/pawpal_system.py): recurrence arithmetic, *)
(* prioritisation, greedy placement, conflict detection and the queries    *)
(* over a DailySchedule.                                                   *)
(*                                                                         *)
(* Conventions                                                             *)
(*   - a datetime.time is a record [hour, minute]; the engine never sets   *)
(*     seconds, and time comparison is lexicographic on (hour, minute);    *)
(*   - a date is its proleptic Gregorian ordinal (datetime.toordinal()),   *)
(*     so weekday() = (ordinal + 6) % 7 and d + timedelta(days=k) = d + k; *)
(*   - a Python str that the code parses is a sequence of one-character    *)
(*     strings.                                                            *)
(***************************************************************************)
EXTENDS Integers, Sequences, FiniteSets, TLC

VARIABLES user, result, arg, ret

vars == <<user, result, arg, ret>>

(***************************************************************************)
(* Bounds of the model.                                                    *)
(***************************************************************************)
MaxTasks == 2        \* tasks owned by the user's pets (scheduling runs)
MaxPrio == 3         \* length of a list handed to _prioritize_tasks
MaxPlaced == 3       \* length of a list of ScheduledTasks built directly

(***************************************************************************)
(* Values                                                                  *)
(***************************************************************************)
NoDate == 0          \* Optional[datetime] = None
NoTask == 0          \* ScheduledTask.task = None

Time(h, m) == [hour |-> h, minute |-> m]

\* datetime.time(hour, minute) raises ValueError outside these ranges
TimeValid(h, m) == h \in 0..23 /\ m \in 0..59

\* time.__lt__ / __le__ on naive times
TimeLT(a, b) == a.hour < b.hour \/ (a.hour = b.hour /\ a.minute < b.minute)
TimeLE(a, b) == a = b \/ TimeLT(a, b)

weekday(d) == (d + 6) % 7

Range(s) == {s[i] : i \in 1..Len(s)}

(***************************************************************************)
(* sorted(list, key=...) and list.sort(key=..., reverse=...).  key[i] is   *)
(* the key of s[i], a tuple of integers; tuples compare lexicographically. *)
(* The sort is stable, also with reverse=True: an element goes after every *)
(* element whose key comes first and after the earlier elements with an    *)
(* equal key.                                                              *)
(***************************************************************************)
KeyLess(a, b) ==
    \E i \in 1..Len(a) : a[i] < b[i] /\ \A j \in 1..(i - 1) : a[j] = b[j]

\* sort with reverse=True done as the ascending sort read backwards, which
\* turns the order of equal keys around
SortThenReverse(s, key, reverse) ==
    LET n == Len(s)
        pos(i) == 1 + Cardinality({j \in 1..n :
                        KeyLess(key[j], key[i]) \/ (j < i /\ key[j] = key[i])})
        ascending == [k \in 1..n |-> s[CHOOSE i \in 1..n : pos(i) = k]]
    IN  IF reverse THEN [k \in 1..n |-> ascending[n + 1 - k]] ELSE ascending

StableSort(s, key, reverse) ==
    LET n == Len(s)
        first(i, j) == IF reverse THEN KeyLess(key[j], key[i])
                       ELSE KeyLess(key[i], key[j])
        pos(i) == 1 + Cardinality({j \in 1..n :
                        first(j, i) \/ (j < i /\ key[j] = key[i])})
    IN  [k \in 1..n |-> s[CHOOSE i \in 1..n : pos(i) = k]]

(***************************************************************************)
(* datetime arithmetic.  A date is held as its ordinal; the calendar date  *)
(* (year, month, day) a caller writes or reads goes through the two        *)
(* conversions of the datetime module, so current_date + timedelta(days=k) *)
(* is Ord2Ymd(Ymd2Ord(y, m, d) + k).                                       *)
(***************************************************************************)
DaysBeforeMonth == <<0, 31, 59, 90, 120, 151, 181, 212, 243, 273, 304, 334>>
DaysInMonthTable == <<31, 28, 31, 30, 31, 30, 31, 31, 30, 31, 30, 31>>

\* datetime(y, m, d).toordinal()
Ymd2Ord(y, m, d) ==
    LET p == y - 1
        leap == y % 4 = 0 /\ (y % 100 # 0 \/ y % 400 = 0)
    IN  p * 365 + (p \div 4) - (p \div 100) + (p \div 400)
            + DaysBeforeMonth[m] + (IF m > 2 /\ leap THEN 1 ELSE 0) + d

\* the (year, month, day) of the date with ordinal n
Ord2Ymd(n) ==
    LET n0 == n - 1
        n400 == n0 \div 146097
        r400 == n0 % 146097
        n100 == r400 \div 36524
        r100 == r400 % 36524
        n4 == r100 \div 1461
        r4 == r100 % 1461
        n1 == r4 \div 365
        r1 == r4 % 365
        year == n400 * 400 + 1 + n100 * 100 + n4 * 4 + n1
        leapyear == n1 = 3 /\ (n4 # 24 \/ n100 = 3)
        month == (r1 + 50) \div 32
        preceding == DaysBeforeMonth[month] + (IF month > 2 /\ leapyear THEN 1 ELSE 0)
        month2 == IF preceding > r1 THEN month - 1 ELSE month
        preceding2 == IF preceding > r1
                      THEN preceding - (DaysInMonthTable[month2]
                                          + (IF month2 = 2 /\ leapyear THEN 1 ELSE 0))
                      ELSE preceding
    IN  IF n1 = 4 \/ n100 = 4 THEN <<year - 1, 12, 31>>
        ELSE <<year, month2, r1 - preceding2 + 1>>

RECURSIVE Flatten(_)
Flatten(ss) == IF ss = <<>> THEN <<>> ELSE Head(ss) \o Flatten(Tail(ss))


(***************************************************************************)
(* Python str operations used by _parse_availability                       *)
(***************************************************************************)
Digits == <<"0", "1", "2", "3", "4", "5", "6", "7", "8", "9">>

IsDigit(c) == \E i \in 1..10 : Digits[i] = c

DigitVal(c) == (CHOOSE i \in 1..10 : Digits[i] = c) - 1

Contains(s, c) == \E i \in 1..Len(s) : s[i] = c

\* index of the first occurrence of c in s, Len(s) + 1 when there is none
FirstIdx(s, c) ==
    IF Contains(s, c)
    THEN CHOOSE i \in 1..Len(s) : s[i] = c /\ \A j \in 1..(i - 1) : s[j] # c
    ELSE Len(s) + 1

\* s.split(sep)[0] and s.split(sep)[1], for s containing sep
SplitPart0(s, sep) == SubSeq(s, 1, FirstIdx(s, sep) - 1)
SplitPart1(s, sep) ==
    LET rest == SubSeq(s, FirstIdx(s, sep) + 1, Len(s))
    IN  SubSeq(rest, 1, FirstIdx(rest, sep) - 1)

\* str.strip()
Strip(s) ==
    LET keep == {i \in 1..Len(s) : s[i] # " "}
    IN  IF keep = {} THEN <<>>
        ELSE SubSeq(s, CHOOSE i \in keep : \A j \in keep : i <= j,
                       CHOOSE i \in keep : \A j \in keep : i >= j)

AllDigits(s) == s # <<>> /\ \A i \in 1..Len(s) : IsDigit(s[i])

RECURSIVE DigitsValue(_)
DigitsValue(s) ==
    IF s = <<>> THEN 0
    ELSE 10 * DigitsValue(SubSeq(s, 1, Len(s) - 1)) + DigitVal(s[Len(s)])

\* int(s): [ok |-> FALSE] stands for ValueError
ParseInt(s) ==
    LET body == IF s # <<>> /\ s[1] = "+" THEN Tail(s) ELSE s
    IN  IF AllDigits(body) THEN [ok |-> TRUE, value |-> DigitsValue(body)]
        ELSE [ok |-> FALSE, value |-> 0]

\* datetime.strptime(s, "%H:%M").time(): one or two digits for the hour
\* (0..23), a colon, one or two digits for the minute (0..59), nothing else
Strptime(s) ==
    LET h == SplitPart0(s, ":")
        m == SubSeq(s, FirstIdx(s, ":") + 1, Len(s))
    IN  IF /\ AllDigits(h) /\ Len(h) <= 2 /\ DigitsValue(h) <= 23
           /\ AllDigits(m) /\ Len(m) <= 2 /\ DigitsValue(m) <= 59
        THEN [ok |-> TRUE, value |-> Time(DigitsValue(h), DigitsValue(m))]
        ELSE [ok |-> FALSE, value |-> Time(0, 0)]

\* ParseClock without the range check of time(hour, 0)
ParseClockUnchecked(s) ==
    IF Contains(s, ":") THEN Strptime(s)
    ELSE LET n == ParseInt(s)
         IN  IF n.ok
             THEN [ok |-> TRUE, value |-> Time(n.value, 0)]
             ELSE [ok |-> FALSE, value |-> Time(0, 0)]

\* one side of the window: "9:00" through strptime, "9" through time(int, 0)
ParseClock(s) ==
    IF Contains(s, ":") THEN Strptime(s)
    ELSE LET n == ParseInt(s)
         IN  IF n.ok /\ TimeValid(n.value, 0)
             THEN [ok |-> TRUE, value |-> Time(n.value, 0)]
             ELSE [ok |-> FALSE, value |-> Time(0, 0)]

DefaultWindow == <<Time(9, 0), Time(17, 0)>>

\* _parse_availability reading the last entry of the list
ParseLastAvailability(availability) ==
    IF availability = <<>> THEN DefaultWindow
    ELSE LET avail_str == availability[Len(availability)]
             start == ParseClock(Strip(SplitPart0(avail_str, "-")))
             end == ParseClock(Strip(SplitPart1(avail_str, "-")))
         IN  IF Contains(avail_str, "-") /\ start.ok /\ end.ok
             THEN <<start.value, end.value>>
             ELSE DefaultWindow

\* TaskScheduler._parse_availability: only the first entry is read; every
\* exception inside the try block falls through to the default window
_parse_availability(availability) ==
    IF availability = <<>> THEN DefaultWindow
    ELSE LET avail_str == availability[1]
             start == ParseClock(Strip(SplitPart0(avail_str, "-")))
             end == ParseClock(Strip(SplitPart1(avail_str, "-")))
         IN  IF Contains(avail_str, "-") /\ start.ok /\ end.ok
             THEN <<start.value, end.value>>
             ELSE DefaultWindow

(***************************************************************************)
(* Task                                                                    *)
(***************************************************************************)
\* should_occur_on_date with every_other_day treated as occurring every day
ShouldOccurEveryOtherAlways(task, date) ==
    IF ~task.is_recurring THEN TRUE
    ELSE IF task.recurrence_pattern = "weekly"
         THEN weekday(date) \in task.recurrence_days
    ELSE TRUE

\* should_occur_on_date that lets a recurring task wait for its next due date
ShouldOccurFromNextDue(task, date) ==
    IF ~task.is_recurring THEN TRUE
    ELSE IF task.next_due_date # NoDate /\ date < task.next_due_date THEN FALSE
    ELSE IF task.recurrence_pattern = "daily" THEN TRUE
    ELSE weekday(date) \in task.recurrence_days

\* Task.should_occur_on_date
should_occur_on_date(task, date) ==
    IF ~task.is_recurring THEN TRUE
    ELSE IF task.recurrence_pattern = "daily" THEN TRUE
    ELSE IF task.recurrence_pattern = "weekly"
         THEN weekday(date) \in task.recurrence_days
    ELSE IF task.recurrence_pattern = "every_other_day"
         THEN weekday(date) \in task.recurrence_days
    ELSE TRUE

\* the loop `for days_offset in range(1, 8)` with its break; days_ahead
\* keeps its initial 7 when the loop ends without a match
RECURSIVE WeeklyDaysAhead(_, _, _)
WeeklyDaysAhead(current_date, recurrence_days, days_offset) ==
    IF days_offset >= 8 THEN 7
    ELSE IF weekday(current_date + days_offset) \in recurrence_days
         THEN days_offset
         ELSE WeeklyDaysAhead(current_date, recurrence_days, days_offset + 1)

\* calculate_next_due_date with the weekly search starting at the completion
\* date itself (range(0, 8))
NextDueDateFromSameDay(task, current_date) ==
    IF ~task.is_recurring THEN NoDate
    ELSE IF task.recurrence_pattern = "daily" THEN current_date + 1
    ELSE IF task.recurrence_pattern = "weekly"
         THEN current_date + WeeklyDaysAhead(current_date, task.recurrence_days, 0)
    ELSE IF task.recurrence_pattern = "every_other_day" THEN current_date + 2
    ELSE NoDate

\* calculate_next_due_date without the test of is_recurring
NextDueDateOfAnyTask(task, current_date) ==
    IF task.recurrence_pattern = "daily" THEN current_date + 1
    ELSE IF task.recurrence_pattern = "weekly"
         THEN current_date + WeeklyDaysAhead(current_date, task.recurrence_days, 1)
    ELSE IF task.recurrence_pattern = "every_other_day" THEN current_date + 2
    ELSE NoDate

\* calculate_next_due_date with the two fixed steps exchanged
NextDueDateStepsSwapped(task, current_date) ==
    IF ~task.is_recurring THEN NoDate
    ELSE IF task.recurrence_pattern = "daily" THEN current_date + 2
    ELSE IF task.recurrence_pattern = "weekly"
         THEN current_date + WeeklyDaysAhead(current_date, task.recurrence_days, 1)
    ELSE IF task.recurrence_pattern = "every_other_day" THEN current_date + 1
    ELSE NoDate

\* Task.calculate_next_due_date
calculate_next_due_date(task, current_date) ==
    IF ~task.is_recurring THEN NoDate
    ELSE IF task.recurrence_pattern = "daily" THEN current_date + 1
    ELSE IF task.recurrence_pattern = "weekly"
         THEN current_date + WeeklyDaysAhead(current_date, task.recurrence_days, 1)
    ELSE IF task.recurrence_pattern = "every_other_day" THEN current_date + 2
    ELSE NoDate

(***************************************************************************)
(* ScheduledTask                                                           *)
(***************************************************************************)
\* overlaps_with with non-strict comparisons
OverlapsInclusive(self, other) ==
    TimeLE(self.start_time, other.end_time) /\ TimeLE(other.start_time, self.end_time)

\* overlaps_with comparing both of its own ends with the other's end
OverlapsOneSided(self, other) ==
    TimeLT(self.start_time, other.end_time) /\ TimeLT(other.end_time, self.end_time)

\* ScheduledTask.overlaps_with
overlaps_with(self, other) ==
    TimeLT(self.start_time, other.end_time) /\ TimeLT(other.start_time, self.end_time)

\* the date mark_complete works with: the argument, or when it is None
\* `self.scheduled_date or datetime.now()`
CompletionDate(self, current_date, now) ==
    IF current_date # NoDate THEN current_date
    ELSE IF self.scheduled_date # NoDate THEN self.scheduled_date
    ELSE now

\* mark_complete that also records the completion date as scheduled_date
MarkCompleteStampsDate(self, task, current_date, now) ==
    IF self.task # NoTask /\ task.is_recurring
    THEN LET next_due == calculate_next_due_date(task,
                             CompletionDate(self, current_date, now))
         IN  [self |-> [self EXCEPT !.status = "completed",
                          !.scheduled_date = CompletionDate(self, current_date, now)],
              task |-> [task EXCEPT !.next_due_date = next_due],
              message |-> [kind |-> "completed_next_due", next_due |-> next_due]]
    ELSE [self |-> [self EXCEPT !.status = "completed",
                      !.scheduled_date = CompletionDate(self, current_date, now)],
          task |-> task,
          message |-> [kind |-> "completed", next_due |-> NoDate]]

\* mark_complete taking the scheduled date also when a date is passed
MarkCompleteOnScheduledDate(self, task, current_date, now) ==
    IF self.task # NoTask /\ task.is_recurring
    THEN LET next_due == calculate_next_due_date(task,
                             CompletionDate(self, NoDate, now))
         IN  [self |-> [self EXCEPT !.status = "completed"],
              task |-> [task EXCEPT !.next_due_date = next_due],
              message |-> [kind |-> "completed_next_due", next_due |-> next_due]]
    ELSE [self |-> [self EXCEPT !.status = "completed"],
          task |-> task,
          message |-> [kind |-> "completed", next_due |-> NoDate]]

\* ScheduledTask.mark_complete: the ScheduledTask and the Task it refers to
\* (task is read only when self.task is set) after the call, and the message
\* returned; next_due in the message is the date it names
mark_complete(self, task, current_date, now) ==
    IF self.task # NoTask /\ task.is_recurring
    THEN LET next_due == calculate_next_due_date(task,
                             CompletionDate(self, current_date, now))
         IN  [self |-> [self EXCEPT !.status = "completed"],
              task |-> [task EXCEPT !.next_due_date = next_due],
              message |-> [kind |-> "completed_next_due", next_due |-> next_due]]
    ELSE [self |-> [self EXCEPT !.status = "completed"],
          task |-> task,
          message |-> [kind |-> "completed", next_due |-> NoDate]]

\* reschedule that keeps the status
RescheduleKeepsStatus(self, new_start, new_end) ==
    [self EXCEPT !.start_time = new_start, !.end_time = new_end]

\* ScheduledTask.reschedule
reschedule(self, new_start, new_end) ==
    [self EXCEPT !.start_time = new_start, !.end_time = new_end,
                 !.status = "pending"]

\* the sort key (t.start_time.hour, t.start_time.minute)
StartKey(t) == <<t.start_time.hour, t.start_time.minute>>

\* sorted(tasks, key=lambda t: (t.start_time.hour, t.start_time.minute))
SortedByStart(tasks) ==
    StableSort(tasks, [i \in 1..Len(tasks) |-> StartKey(tasks[i])], FALSE)

\* get_tasks_by_time with the key (t.start_time.hour) alone
TasksByHour(scheduled_tasks) ==
    StableSort(scheduled_tasks,
               [i \in 1..Len(scheduled_tasks) |-> <<scheduled_tasks[i].start_time.hour>>],
               FALSE)

\* DailySchedule.get_tasks_by_time
get_tasks_by_time(scheduled_tasks) == SortedByStart(scheduled_tasks)

\* get_tasks_in_time_range keeping every task that overlaps the range
TasksTouchingRange(scheduled_tasks, start_time, end_time) ==
    SortedByStart(SelectSeq(scheduled_tasks, LAMBDA t :
        TimeLT(t.start_time, end_time) /\ TimeLT(start_time, t.end_time)))

\* DailySchedule.get_tasks_in_time_range
get_tasks_in_time_range(scheduled_tasks, start_time, end_time) ==
    SortedByStart(SelectSeq(scheduled_tasks, LAMBDA t :
        TimeLE(start_time, t.start_time) /\ TimeLE(t.end_time, end_time)))

(***************************************************************************)
(* TaskScheduler                                                           *)
(***************************************************************************)
\* sort key of the medications (sorted with reverse=True)
MedicationKey(t) == <<t.priority>>

\* time_order.get(t.preferred_time, 1)
time_order(preferred_time) ==
    IF preferred_time = "morning" THEN 0
    ELSE IF preferred_time = "evening" THEN 2
    ELSE 1

\* the key of the others without the minus sign: priority ascending
NonMedicationKeyAscending(t) == <<t.priority, time_order(t.preferred_time)>>

\* sort key of the others: (-t.priority, time_order.get(t.preferred_time, 1))
NonMedicationKey(t) == <<-t.priority, time_order(t.preferred_time)>>

\* _prioritize_tasks as one sort of all tasks by priority, without the
\* partition into medications and others
PrioritizeByPriority(tasks) ==
    StableSort(tasks, [i \in 1..Len(tasks) |-> MedicationKey(tasks[i])], TRUE)

\* _prioritize_tasks with the two sorted lists concatenated the other way round
PrioritizeMedicationsLast(tasks) ==
    LET medications == SelectSeq(tasks, LAMBDA t : t.is_medication)
        non_medications == SelectSeq(tasks, LAMBDA t : ~t.is_medication)
    IN  StableSort(non_medications,
                   [i \in 1..Len(non_medications) |->
                       NonMedicationKey(non_medications[i])],
                   FALSE)
        \o StableSort(medications,
                      [i \in 1..Len(medications) |-> MedicationKey(medications[i])],
                      TRUE)

\* TaskScheduler._prioritize_tasks
_prioritize_tasks(tasks) ==
    LET medications == SelectSeq(tasks, LAMBDA t : t.is_medication)
        non_medications == SelectSeq(tasks, LAMBDA t : ~t.is_medication)
    IN  StableSort(medications,
                   [i \in 1..Len(medications) |-> MedicationKey(medications[i])],
                   TRUE)
        \o StableSort(non_medications,
                      [i \in 1..Len(non_medications) |->
                          NonMedicationKey(non_medications[i])],
                      FALSE)

\* EndHour without the carry of the minutes
EndHourNoCarry(task_start, task_duration) ==
    task_start.hour + (task_duration \div 60)

\* EndHour taken modulo the 24 hours of the day
EndHourWrapped(task_start, task_duration) ==
    LET end_minute == task_start.minute + (task_duration % 60)
    IN  (task_start.hour + (task_duration \div 60)
            + (IF end_minute >= 60 THEN 1 ELSE 0)) % 24

\* the candidate end of a task started at task_start, before time() checks it
EndHour(task_start, task_duration) ==
    LET end_minute == task_start.minute + (task_duration % 60)
    IN  task_start.hour + (task_duration \div 60)
            + (IF end_minute >= 60 THEN 1 ELSE 0)

EndMinute(task_start, task_duration) ==
    LET end_minute == task_start.minute + (task_duration % 60)
    IN  IF end_minute >= 60 THEN end_minute - 60 ELSE end_minute

\* Fits with the end compared by the hour only
FitsByHour(task, task_end, available_end) ==
    task_end.hour <= available_end.hour \/ task.is_medication

\* the test `task_end <= available_end or task.is_medication`
Fits(task, task_end, available_end) ==
    TimeLE(task_end, available_end) \/ task.is_medication

\* the loop with the cursor moved to the candidate end of a skipped task too
RECURSIVE FitLoopSkipMovesCursor(_, _, _, _, _, _)
FitLoopSkipMovesCursor(prioritized_tasks, i, current_time, available_end, date, scheduled_tasks) ==
    IF i > Len(prioritized_tasks)
    THEN [raised |-> FALSE, scheduled_tasks |-> scheduled_tasks]
    ELSE LET task == prioritized_tasks[i]
             end_hour == EndHour(current_time, task.duration)
             end_minute == EndMinute(current_time, task.duration)
             task_end == Time(end_hour, end_minute)
         IN  IF ~TimeValid(end_hour, end_minute)
             THEN [raised |-> TRUE, scheduled_tasks |-> scheduled_tasks]
             ELSE IF Fits(task, task_end, available_end)
             THEN FitLoopSkipMovesCursor(prioritized_tasks, i + 1, task_end, available_end, date,
                          Append(scheduled_tasks,
                                 [task_id |-> task.task_id,
                                  start_time |-> current_time,
                                  end_time |-> task_end,
                                  pet_id |-> task.pet_id,
                                  task |-> task.task_id,
                                  status |-> "pending",
                                  scheduled_date |-> date]))
             ELSE FitLoopSkipMovesCursor(prioritized_tasks, i + 1, task_end, available_end,
                          date, scheduled_tasks)

\* the loop with the cursor left where it is after a task placed past the
\* window's end
RECURSIVE FitLoopMedicalKeepsCursor(_, _, _, _, _, _)
FitLoopMedicalKeepsCursor(prioritized_tasks, i, current_time, available_end, date, scheduled_tasks) ==
    IF i > Len(prioritized_tasks)
    THEN [raised |-> FALSE, scheduled_tasks |-> scheduled_tasks]
    ELSE LET task == prioritized_tasks[i]
             end_hour == EndHour(current_time, task.duration)
             end_minute == EndMinute(current_time, task.duration)
             task_end == Time(end_hour, end_minute)
         IN  IF ~TimeValid(end_hour, end_minute)
             THEN [raised |-> TRUE, scheduled_tasks |-> scheduled_tasks]
             ELSE IF Fits(task, task_end, available_end)
             THEN FitLoopMedicalKeepsCursor(prioritized_tasks, i + 1, IF TimeLE(task_end, available_end) THEN task_end ELSE current_time, available_end, date,
                          Append(scheduled_tasks,
                                 [task_id |-> task.task_id,
                                  start_time |-> current_time,
                                  end_time |-> task_end,
                                  pet_id |-> task.pet_id,
                                  task |-> task.task_id,
                                  status |-> "pending",
                                  scheduled_date |-> date]))
             ELSE FitLoopMedicalKeepsCursor(prioritized_tasks, i + 1, current_time, available_end,
                          date, scheduled_tasks)

\* the loop of _fit_tasks_in_schedule from its i-th task on; time(end_hour,
\* end_minute) raises ValueError and the loop is abandoned
RECURSIVE FitLoop(_, _, _, _, _, _)
FitLoop(prioritized_tasks, i, current_time, available_end, date, scheduled_tasks) ==
    IF i > Len(prioritized_tasks)
    THEN [raised |-> FALSE, scheduled_tasks |-> scheduled_tasks]
    ELSE LET task == prioritized_tasks[i]
             end_hour == EndHour(current_time, task.duration)
             end_minute == EndMinute(current_time, task.duration)
             task_end == Time(end_hour, end_minute)
         IN  IF ~TimeValid(end_hour, end_minute)
             THEN [raised |-> TRUE, scheduled_tasks |-> scheduled_tasks]
             ELSE IF Fits(task, task_end, available_end)
             THEN FitLoop(prioritized_tasks, i + 1, task_end, available_end, date,
                          Append(scheduled_tasks,
                                 [task_id |-> task.task_id,
                                  start_time |-> current_time,
                                  end_time |-> task_end,
                                  pet_id |-> task.pet_id,
                                  task |-> task.task_id,
                                  status |-> "pending",
                                  scheduled_date |-> date]))
             ELSE FitLoop(prioritized_tasks, i + 1, current_time, available_end,
                          date, scheduled_tasks)

\* TaskScheduler._fit_tasks_in_schedule
_fit_tasks_in_schedule(availability, prioritized_tasks, date) ==
    LET available_slots == _parse_availability(availability)
        fit == FitLoop(prioritized_tasks, 1, available_slots[1],
                       available_slots[2], date, <<>>)
    IN  [raised |-> fit.raised,
         scheduled_tasks |-> SortedByStart(fit.scheduled_tasks)]

\* _detect_conflicts comparing each task with its successor only
DetectAdjacentConflicts(scheduled_tasks) ==
    LET hits == SelectSeq([k \in 1..(Len(scheduled_tasks) - 1) |-> k], LAMBDA k :
                    overlaps_with(scheduled_tasks[k], scheduled_tasks[k + 1]))
    IN  [k \in 1..Len(hits) |->
            <<scheduled_tasks[hits[k]], scheduled_tasks[hits[k] + 1]>>]

\* TaskScheduler._detect_conflicts: task1 at i, task2 over scheduled_tasks[i+1:]
_detect_conflicts(scheduled_tasks) ==
    LET n == Len(scheduled_tasks)
        pairs == [k \in 1..(n * n) |-> <<((k - 1) \div n) + 1, ((k - 1) % n) + 1>>]
        hits == SelectSeq(pairs, LAMBDA p :
                    /\ p[1] < p[2]
                    /\ overlaps_with(scheduled_tasks[p[1]], scheduled_tasks[p[2]]))
    IN  [k \in 1..Len(hits) |->
            <<scheduled_tasks[hits[k][1]], scheduled_tasks[hits[k][2]]>>]

\* _generate_explanation listing under "Unable to Schedule" the tasks that
\* ended after the window, placed or not
ExplanationUnableByWindow(availability, conflicts, all_tasks, scheduled_tasks) ==
    LET by_time == get_tasks_by_time(scheduled_tasks)
        late == {scheduled_tasks[i].task_id : i \in
                    {k \in 1..Len(scheduled_tasks) :
                        ~TimeLE(scheduled_tasks[k].end_time,
                                _parse_availability(availability)[2])}}
        scheduled_ids == {scheduled_tasks[i].task_id : i \in 1..Len(scheduled_tasks)}
                            \ late
        unscheduled == SelectSeq(all_tasks, LAMBDA t : t.task_id \notin scheduled_ids)
    IN  [scheduled_section |-> scheduled_tasks # <<>>,
         scheduled |-> [i \in 1..Len(by_time) |-> by_time[i].task_id],
         unable_section |-> unscheduled # <<>>,
         unable |-> [i \in 1..Len(unscheduled) |-> unscheduled[i].task_id],
         conflicts |-> [i \in 1..Len(conflicts) |->
                          <<conflicts[i][1].task_id, conflicts[i][2].task_id>>],
         availability |-> availability]

\* TaskScheduler._generate_explanation, one field per section of the text;
\* scheduled_section and unable_section say whether the section's heading
\* (`if scheduled_tasks:`, `if unscheduled:`) is in the text
_generate_explanation(availability, conflicts, all_tasks, scheduled_tasks) ==
    LET scheduled_ids == {scheduled_tasks[i].task_id : i \in 1..Len(scheduled_tasks)}
        by_time == get_tasks_by_time(scheduled_tasks)
        unscheduled == SelectSeq(all_tasks, LAMBDA t : t.task_id \notin scheduled_ids)
    IN  [scheduled_section |-> scheduled_tasks # <<>>,
         scheduled |-> [i \in 1..Len(by_time) |-> by_time[i].task_id],
         unable_section |-> unscheduled # <<>>,
         unable |-> [i \in 1..Len(unscheduled) |-> unscheduled[i].task_id],
         conflicts |-> [i \in 1..Len(conflicts) |->
                          <<conflicts[i][1].task_id, conflicts[i][2].task_id>>],
         availability |-> availability]

\* the tasks of all pets that occur on the date, in pet order
AllTasks(u, date) ==
    SelectSeq(Flatten([p \in 1..Len(u.pets) |-> u.pets[p].tasks]),
              LAMBDA t : should_occur_on_date(t, date))

\* TaskScheduler.schedule_tasks: the DailySchedule it returns, or the error
\* that leaves it
schedule_tasks(u, date) ==
    LET all_tasks == AllTasks(u, date)
        prioritized_tasks == _prioritize_tasks(all_tasks)
        fit == _fit_tasks_in_schedule(u.availability, prioritized_tasks, date)
        conflicts == _detect_conflicts(fit.scheduled_tasks)
    IN  IF fit.raised
        THEN [status |-> "raised", error |-> "ValueError", date |-> date]
        ELSE [status |-> "returned",
              date |-> date,
              scheduled_tasks |-> fit.scheduled_tasks,
              conflicts |-> conflicts,
              explanation |-> _generate_explanation(u.availability, conflicts,
                                                    all_tasks, fit.scheduled_tasks)]

(***************************************************************************)
(* Inputs of the scheduling runs                                           *)
(***************************************************************************)
\* user.availability lists: none, "9-12", "09:30-10:30", "22-23", and
\* ["Mon-Fri: 9-5", "Sat: 10-12"] (the form the User class documents)
Availabilities ==
    { <<>>,
      << <<"9", "-", "1", "2">> >>,
      << <<"0", "9", ":", "3", "0", "-", "1", "0", ":", "3", "0">> >>,
      << <<"2", "2", "-", "2", "3">> >>,
      << <<"M", "o", "n", "-", "F", "r", "i", ":", " ", "9", "-", "5">>,
         <<"S", "a", "t", ":", " ", "1", "0", "-", "1", "2">> >> }

Durations == {45, 240}
Priorities == {1, 5}
PreferredTimes == {"flexible"}

\* (is_recurring, recurrence_pattern, recurrence_days)
Recurrences ==
    { [is_recurring |-> FALSE, recurrence_pattern |-> "daily", recurrence_days |-> {}],
      [is_recurring |-> TRUE, recurrence_pattern |-> "weekly", recurrence_days |-> {0}] }

\* Monday 2026-02-23 and Friday 2026-02-27
Dates == {739670, 739674}

TaskKinds ==
    [duration : Durations, priority : Priorities, is_medication : BOOLEAN,
     preferred_time : PreferredTimes, recurrence : Recurrences]

MkTask(kind, id, pet) ==
    [task_id |-> id,
     pet_id |-> pet,
     duration |-> kind.duration,
     priority |-> kind.priority,
     is_medication |-> kind.is_medication,
     preferred_time |-> kind.preferred_time,
     is_recurring |-> kind.recurrence.is_recurring,
     recurrence_pattern |-> kind.recurrence.recurrence_pattern,
     recurrence_days |-> kind.recurrence.recurrence_days,
     next_due_date |-> NoDate]

\* two pets; the first owns the first k tasks, the second the others
FirstPetShare(n) == (n + 1) \div 2

MkPets(kinds, k) ==
    << [pet_id |-> 1, tasks |-> [i \in 1..k |-> MkTask(kinds[i], i, 1)]],
       [pet_id |-> 2,
        tasks |-> [i \in 1..(Len(kinds) - k) |-> MkTask(kinds[k + i], k + i, 2)]] >>

NoCall == [op |-> "none"]

(***************************************************************************)
(* The scheduling runs: a user with pets and tasks; schedule_tasks is      *)
(* called for a date                                                       *)
(***************************************************************************)
Init ==
    /\ \E a \in Availabilities, n \in 0..MaxTasks :
          \E kinds \in [1..n -> TaskKinds] :
              user = [availability |-> a, pets |-> MkPets(kinds, FirstPetShare(n))]
    /\ result = [status |-> "none"]
    /\ arg = NoCall
    /\ ret = NoCall

\* schedule_tasks writing the date into next_due_date of the tasks it places
ScheduleTasksStampsDue(date) ==
    /\ result' = schedule_tasks(user, date)
    /\ ret' = NoCall
    /\ user' = [user EXCEPT !.pets = [p \in 1..Len(user.pets) |->
                   [user.pets[p] EXCEPT !.tasks = [k \in 1..Len(user.pets[p].tasks) |->
                       IF /\ result'.status = "returned"
                          /\ \E i \in 1..Len(result'.scheduled_tasks) :
                                result'.scheduled_tasks[i].task_id
                                    = user.pets[p].tasks[k].task_id
                       THEN [user.pets[p].tasks[k] EXCEPT !.next_due_date = date]
                       ELSE user.pets[p].tasks[k]]]]]
    /\ UNCHANGED arg

ScheduleTasks(date) ==
    /\ result' = schedule_tasks(user, date)
    /\ ret' = NoCall
    /\ UNCHANGED <<user, arg>>

Next == \E date \in Dates : ScheduleTasks(date)

Spec == Init /\ [][Next]_vars

(***************************************************************************)
(* Properties of the scheduling runs                                       *)
(***************************************************************************)
UserTasks(u) == Flatten([p \in 1..Len(u.pets) |-> u.pets[p].tasks])

TaskOf(u, id) == CHOOSE t \in Range(UserTasks(u)) : t.task_id = id

Called == result.status # "none"
Returned == result.status = "returned"
Raised == result.status = "raised"

Placed == IF Returned THEN Range(result.scheduled_tasks) ELSE {}
PlacedIds == {st.task_id : st \in Placed}

WindowStart == _parse_availability(user.availability)[1]
WindowEnd == _parse_availability(user.availability)[2]

\* C1: schedule_tasks never places a non-medical task whose end time is
\* after the end of the availability window
C1_NonMedicalWithinWindow ==
    \A st \in Placed :
        ~TaskOf(user, st.task_id).is_medication => TimeLE(st.end_time, WindowEnd)

\* a run that placed one non-medical task and skipped another one, whose
\* end would have been after the window's end
C1_Witness ==
    /\ Returned
    /\ \E st \in Placed : ~TaskOf(user, st.task_id).is_medication
    /\ \E t \in Range(AllTasks(user, result.date)) :
          /\ ~t.is_medication
          /\ t.task_id \notin PlacedIds

\* C2: after schedule_tasks, every medical task that occurs on the date is
\* among the placed tasks, whatever the window and the task's duration
C2_MedicalAlwaysPlaced ==
    Called =>
        \A t \in Range(AllTasks(user, result.date)) :
            t.is_medication => t.task_id \in PlacedIds

\* durations 1..240, priorities 1..5, a window with start < end
WellFormed(u) ==
    /\ \A t \in Range(UserTasks(u)) : t.duration \in 1..240 /\ t.priority \in 1..5
    /\ TimeLT(_parse_availability(u.availability)[1],
              _parse_availability(u.availability)[2])

\* C3: on well-formed input schedule_tasks returns a schedule; a task that
\* does not fit is left unplaced and the call does not fail
C3_TotalOnWellFormedInput ==
    (Called /\ WellFormed(user)) => Returned

(***************************************************************************)
(* _prioritize_tasks applied to a list of tasks                            *)
(***************************************************************************)
NoUser == [availability |-> <<>>, pets |-> <<>>]

PrioKinds ==
    [duration : {30}, priority : {1, 3, 5}, is_medication : BOOLEAN,
     preferred_time : {"morning", "flexible", "evening"},
     recurrence : {[is_recurring |-> FALSE, recurrence_pattern |-> "daily",
                    recurrence_days |-> {}]}]

InitPrioritize ==
    /\ user = NoUser
    /\ result = [status |-> "none"]
    /\ \E n \in 0..MaxPrio : \E kinds \in [1..n -> PrioKinds] :
          arg = [op |-> "tasks", tasks |-> [i \in 1..n |-> MkTask(kinds[i], i, 1)]]
    /\ ret = NoCall

Prioritize ==
    /\ arg.op = "tasks"
    /\ ret' = [op |-> "_prioritize_tasks", value |-> _prioritize_tasks(arg.tasks)]
    /\ UNCHANGED <<user, result, arg>>

NextPrioritize == Prioritize

SpecPrioritize == InitPrioritize /\ [][NextPrioritize]_vars

(***************************************************************************)
(* A DailySchedule built from a list of ScheduledTasks, and the operations *)
(* on it that read the placements                                          *)
(***************************************************************************)
Clock == <<Time(9, 0), Time(9, 30), Time(10, 15), Time(10, 45)>>

\* start before end
Intervals == {iv \in (1..Len(Clock)) \X (1..Len(Clock)) : iv[1] < iv[2]}

MkScheduledTask(id, iv) ==
    [task_id |-> id,
     start_time |-> Clock[iv[1]],
     end_time |-> Clock[iv[2]],
     pet_id |-> 1,
     task |-> NoTask,
     status |-> "pending",
     scheduled_date |-> NoDate]

InitSchedule ==
    /\ user = NoUser
    /\ result = [status |-> "none"]
    /\ \E n \in 0..MaxPlaced : \E ivs \in [1..n -> Intervals] :
          arg = [op |-> "DailySchedule",
                 scheduled_tasks |-> [i \in 1..n |-> MkScheduledTask(i, ivs[i])]]
    /\ ret = NoCall

DetectConflicts ==
    /\ arg.op = "DailySchedule"
    /\ ret' = [op |-> "_detect_conflicts",
               value |-> _detect_conflicts(arg.scheduled_tasks)]
    /\ UNCHANGED <<user, result, arg>>

OverlapsWith(i, j) ==
    /\ arg.op = "DailySchedule"
    /\ ret' = [op |-> "overlaps_with", self |-> i, other |-> j,
               value |-> overlaps_with(arg.scheduled_tasks[i], arg.scheduled_tasks[j])]
    /\ UNCHANGED <<user, result, arg>>

GetTasksByTime ==
    /\ arg.op = "DailySchedule"
    /\ ret' = [op |-> "get_tasks_by_time",
               value |-> get_tasks_by_time(arg.scheduled_tasks)]
    /\ UNCHANGED <<user, result, arg>>

GetTasksInTimeRange(start_time, end_time) ==
    /\ arg.op = "DailySchedule"
    /\ ret' = [op |-> "get_tasks_in_time_range",
               start_time |-> start_time, end_time |-> end_time,
               value |-> get_tasks_in_time_range(arg.scheduled_tasks,
                                                 start_time, end_time)]
    /\ UNCHANGED <<user, result, arg>>

NextSchedule ==
    \/ DetectConflicts
    \/ \E i, j \in 1..Len(arg.scheduled_tasks) : OverlapsWith(i, j)
    \/ GetTasksByTime
    \/ \E from, to \in Range(Clock) : GetTasksInTimeRange(from, to)

SpecSchedule == InitSchedule /\ [][NextSchedule]_vars

(***************************************************************************)
(* The recurrence calculator applied to a task and a completion date       *)
(***************************************************************************)
Patterns == {"daily", "weekly", "every_other_day"}

\* Monday 2026-02-23 .. Sunday 2026-03-01, the last two days of 2025 and
\* the end of February in the leap year 2024
RecurDates ==
    (739670..739676)
        \cup {Ymd2Ord(2025, 12, 30), Ymd2Ord(2025, 12, 31),
              Ymd2Ord(2024, 2, 28), Ymd2Ord(2024, 2, 29)}

InitRecur ==
    /\ user = NoUser
    /\ result = [status |-> "none"]
    /\ \E rec \in BOOLEAN, pat \in Patterns, days \in SUBSET (0..6), d \in RecurDates :
          arg = [op |-> "Task",
                 task |-> MkTask([duration |-> 30, priority |-> 3,
                                  is_medication |-> FALSE,
                                  preferred_time |-> "flexible",
                                  recurrence |-> [is_recurring |-> rec,
                                                  recurrence_pattern |-> pat,
                                                  recurrence_days |-> days]], 1, 1),
                 current_date |-> d]
    /\ ret = NoCall

CalculateNextDueDate ==
    /\ arg.op = "Task"
    /\ ret' = [op |-> "calculate_next_due_date",
               value |-> calculate_next_due_date(arg.task, arg.current_date)]
    /\ UNCHANGED <<user, result, arg>>

ShouldOccurOnDate ==
    /\ arg.op = "Task"
    /\ ret' = [op |-> "should_occur_on_date",
               value |-> should_occur_on_date(arg.task, arg.current_date)]
    /\ UNCHANGED <<user, result, arg>>

\* task.should_occur_on_date(task.calculate_next_due_date(current_date)) of a
\* recurring task
OccursOnNextDueDate ==
    /\ arg.op = "Task"
    /\ arg.task.is_recurring
    /\ LET next_due == calculate_next_due_date(arg.task, arg.current_date)
       IN  ret' = [op |-> "occurs_on_next_due_date",
                   next_due |-> next_due,
                   value |-> should_occur_on_date(arg.task, next_due)]
    /\ UNCHANGED <<user, result, arg>>

NextRecur == CalculateNextDueDate \/ ShouldOccurOnDate \/ OccursOnNextDueDate

SpecRecur == InitRecur /\ [][NextRecur]_vars

(***************************************************************************)
(* Properties of _prioritize_tasks                                         *)
(***************************************************************************)
Prioritized == ret.op = "_prioritize_tasks"

\* C4: in the output of _prioritize_tasks every medical task precedes every
\* non-medical task, whatever the input order and the priorities
C4_MedicalFirst ==
    Prioritized =>
        \A i, j \in 1..Len(ret.value) :
            (ret.value[i].is_medication /\ ~ret.value[j].is_medication) => i < j

\* a priority-1 medical task that came after a priority-5 non-medical task in
\* the input and precedes it in the output
C4_Witness ==
    /\ Prioritized
    /\ \E i, j \in 1..Len(arg.tasks) :
          /\ i < j
          /\ ~arg.tasks[i].is_medication /\ arg.tasks[i].priority = 5
          /\ arg.tasks[j].is_medication /\ arg.tasks[j].priority = 1
    /\ \E i, j \in 1..Len(ret.value) :
          /\ i < j
          /\ ret.value[i].is_medication /\ ret.value[i].priority = 1
          /\ ~ret.value[j].is_medication /\ ret.value[j].priority = 5

\* C5: a non-medical task a comes before a non-medical task b in the output
\* only if a has the higher priority, or the priorities are equal and a's
\* preferred time is not later than b's (morning, flexible, evening)
C5_NonMedicalOrder ==
    Prioritized =>
        \A i, j \in 1..Len(ret.value) :
            LET a == ret.value[i]
                b == ret.value[j]
            IN  (i < j /\ ~a.is_medication /\ ~b.is_medication) =>
                    \/ a.priority > b.priority
                    \/ /\ a.priority = b.priority
                       /\ (a.preferred_time = "evening" => b.preferred_time = "evening")
                       /\ (a.preferred_time = "flexible" => b.preferred_time # "morning")

\* an evening task listed before a morning task of the same priority, both
\* non-medical, comes after it in the output
C5_Witness ==
    /\ Prioritized
    /\ \E i, j \in 1..Len(arg.tasks) :
          /\ i < j
          /\ ~arg.tasks[i].is_medication /\ ~arg.tasks[j].is_medication
          /\ arg.tasks[i].priority = arg.tasks[j].priority
          /\ arg.tasks[i].preferred_time = "evening"
          /\ arg.tasks[j].preferred_time = "morning"
          /\ \E k, l \in 1..Len(ret.value) :
                k < l /\ ret.value[k] = arg.tasks[j] /\ ret.value[l] = arg.tasks[i]

(***************************************************************************)
(* Properties of the operations on a DailySchedule                         *)
(***************************************************************************)
\* the overlap of two placements as the property states it
Intersect(a, b) == TimeLT(a.start_time, b.end_time) /\ TimeLT(b.start_time, a.end_time)

\* the number of entries of the pair list about the placements a and b
PairCount(pairs, a, b) ==
    Cardinality({k \in 1..Len(pairs) : pairs[k] = <<a, b>> \/ pairs[k] = <<b, a>>})

\* C6: _detect_conflicts returns exactly one pair for each unordered pair of
\* distinct placements that overlap, and no other pair
C6_ConflictsExact ==
    ret.op = "_detect_conflicts" =>
        LET st == arg.scheduled_tasks
        IN  /\ \A i, j \in 1..Len(st) :
                  i < j => PairCount(ret.value, st[i], st[j])
                              = (IF Intersect(st[i], st[j]) THEN 1 ELSE 0)
            /\ Len(ret.value) = Cardinality({p \in (1..Len(st)) \X (1..Len(st)) :
                                    p[1] < p[2] /\ Intersect(st[p[1]], st[p[2]])})

\* three placements that overlap one another give three pairs
C6_Witness ==
    /\ ret.op = "_detect_conflicts"
    /\ Len(arg.scheduled_tasks) = 3
    /\ \A i, j \in 1..3 : Intersect(arg.scheduled_tasks[i], arg.scheduled_tasks[j])
    /\ Len(ret.value) = 3

\* one placement ends exactly when the other starts
BackToBack(a, b) == a.end_time = b.start_time \/ b.end_time = a.start_time

\* C7: two placements that are back to back are never reported as a conflict,
\* by overlaps_with or by _detect_conflicts
C7_BackToBackNoConflict ==
    /\ ret.op = "overlaps_with" =>
          (BackToBack(arg.scheduled_tasks[ret.self], arg.scheduled_tasks[ret.other])
              => ~ret.value)
    /\ ret.op = "_detect_conflicts" =>
          \A k \in 1..Len(ret.value) : ~BackToBack(ret.value[k][1], ret.value[k][2])

\* overlaps_with was asked about two back-to-back placements
C7_Witness ==
    /\ ret.op = "overlaps_with"
    /\ arg.scheduled_tasks[ret.self].end_time = arg.scheduled_tasks[ret.other].start_time
    /\ ~ret.value

\* C8: overlaps_with is symmetric: A.overlaps_with(B) = B.overlaps_with(A)
C8_OverlapSymmetric ==
    ret.op = "overlaps_with" =>
        ret.value = overlaps_with(arg.scheduled_tasks[ret.other],
                                  arg.scheduled_tasks[ret.self])

\* overlaps_with answered true for two placements with different intervals
C8_Witness ==
    /\ ret.op = "overlaps_with"
    /\ ret.value
    /\ arg.scheduled_tasks[ret.self].start_time # arg.scheduled_tasks[ret.other].start_time
    /\ arg.scheduled_tasks[ret.self].end_time # arg.scheduled_tasks[ret.other].end_time

Count(s, x) == Cardinality({k \in 1..Len(s) : s[k] = x})

\* C9: get_tasks_by_time returns the schedule's placements, none added or
\* dropped, in non-decreasing order of start (hour, minute)
C9_ByTimeSortedPermutation ==
    ret.op = "get_tasks_by_time" =>
        /\ Len(ret.value) = Len(arg.scheduled_tasks)
        /\ \A x \in Range(arg.scheduled_tasks) \cup Range(ret.value) :
              Count(ret.value, x) = Count(arg.scheduled_tasks, x)
        /\ \A k \in 1..(Len(ret.value) - 1) :
              TimeLE(ret.value[k].start_time, ret.value[k + 1].start_time)

\* three placements given latest first, two of them starting in the same
\* hour, come back earliest first
C9_Witness ==
    /\ ret.op = "get_tasks_by_time"
    /\ Len(arg.scheduled_tasks) = 3
    /\ TimeLT(arg.scheduled_tasks[3].start_time, arg.scheduled_tasks[2].start_time)
    /\ TimeLT(arg.scheduled_tasks[2].start_time, arg.scheduled_tasks[1].start_time)
    /\ arg.scheduled_tasks[3].start_time.hour = arg.scheduled_tasks[2].start_time.hour
    /\ ret.value = <<arg.scheduled_tasks[3], arg.scheduled_tasks[2], arg.scheduled_tasks[1]>>

(***************************************************************************)
(* Properties of the recurrence calculator                                 *)
(***************************************************************************)
\* the offsets 1..7 from d that fall on one of the weekdays
MatchingOffsets(d, days) == {k \in 1..7 : weekday(d + k) \in days}

\* C10: for a recurring weekly task calculate_next_due_date(d) is d + k for
\* the smallest k in 1..7 with weekday(d + k) in recurrence_days, and d + 7
\* when there is no such k
C10_WeeklyNextDue ==
    (/\ ret.op = "calculate_next_due_date"
     /\ arg.task.is_recurring
     /\ arg.task.recurrence_pattern = "weekly") =>
        LET M == MatchingOffsets(arg.current_date, arg.task.recurrence_days)
        IN  IF M = {} THEN ret.value = arg.current_date + 7
            ELSE /\ ret.value - arg.current_date \in M
                 /\ \A k \in M : ret.value - arg.current_date <= k

\* a weekly task completed on its only weekday: due again a week later
C10_Witness ==
    /\ ret.op = "calculate_next_due_date"
    /\ arg.task.is_recurring
    /\ arg.task.recurrence_pattern = "weekly"
    /\ arg.task.recurrence_days = {weekday(arg.current_date)}
    /\ ret.value = arg.current_date + 7

(***************************************************************************)
(* mark_complete called on a ScheduledTask built directly, with or without *)
(* a Task behind it                                                        *)
(***************************************************************************)
Statuses == {"pending", "in_progress", "completed"}

\* Sunday 2026-02-15, Friday 2026-02-27
CompletionDates == {Ymd2Ord(2026, 2, 15), Ymd2Ord(2026, 2, 27)}

\* what datetime.now() may return: Wednesday 2026-03-04
NowDates == {Ymd2Ord(2026, 3, 4)}

InitComplete ==
    /\ user = NoUser
    /\ result = [status |-> "none"]
    /\ \E status \in Statuses, ref \in {NoTask, 1},
          scheduled_date \in {NoDate, Ymd2Ord(2026, 2, 23)},
          rec \in BOOLEAN, pat \in Patterns, days \in {{}, {0}, {0, 2, 4}},
          due \in {NoDate, Ymd2Ord(2026, 2, 20)} :
          arg = [op |-> "ScheduledTask",
                 self |-> [MkScheduledTask(1, <<1, 2>>) EXCEPT
                              !.status = status, !.task = ref,
                              !.scheduled_date = scheduled_date],
                 task |-> [MkTask([duration |-> 30, priority |-> 3,
                                   is_medication |-> FALSE,
                                   preferred_time |-> "flexible",
                                   recurrence |-> [is_recurring |-> rec,
                                                   recurrence_pattern |-> pat,
                                                   recurrence_days |-> days]], 1, 1)
                           EXCEPT !.next_due_date = due]]
    /\ ret = NoCall

MarkComplete(current_date, now) ==
    /\ arg.op = "ScheduledTask"
    /\ LET done == mark_complete(arg.self, arg.task, current_date, now)
       IN  ret' = [op |-> "mark_complete", current_date |-> current_date,
                   now |-> now, self |-> done.self, task |-> done.task,
                   message |-> done.message]
    /\ UNCHANGED <<user, result, arg>>

NextComplete ==
    \E current_date \in {NoDate} \cup CompletionDates, now \in NowDates :
        MarkComplete(current_date, now)

SpecComplete == InitComplete /\ [][NextComplete]_vars

(***************************************************************************)
(* A generated schedule in use: placements are completed, unchecked and    *)
(* rescheduled, and the schedule is generated again                        *)
(***************************************************************************)
\* user.availability = ["9-12"]
LifeAvailabilities == { << <<"9", "-", "1", "2">> >> }

LifeKinds ==
    [duration : {45}, priority : {3}, is_medication : {FALSE},
     preferred_time : {"flexible"},
     recurrence :
        { [is_recurring |-> FALSE, recurrence_pattern |-> "daily", recurrence_days |-> {}],
          [is_recurring |-> TRUE, recurrence_pattern |-> "daily", recurrence_days |-> {}],
          [is_recurring |-> TRUE, recurrence_pattern |-> "weekly", recurrence_days |-> {0}] }]

\* the slot a placement is moved to
RescheduleSlots == { <<Time(9, 30), Time(10, 0)>> }

InitLife ==
    /\ \E a \in LifeAvailabilities, n \in 0..MaxTasks :
          \E kinds \in [1..n -> LifeKinds] :
              user = [availability |-> a, pets |-> MkPets(kinds, FirstPetShare(n))]
    /\ result = [status |-> "none"]
    /\ arg = NoCall
    /\ ret = NoCall

\* the user with the Task of that task_id replaced
WithTask(u, task) ==
    [u EXCEPT !.pets = [p \in 1..Len(u.pets) |->
        [u.pets[p] EXCEPT !.tasks = [k \in 1..Len(u.pets[p].tasks) |->
            IF u.pets[p].tasks[k].task_id = task.task_id THEN task
            ELSE u.pets[p].tasks[k]]]]]

\* mark_complete on the i-th placement of the schedule
CompletePlacement(i, current_date, now) ==
    /\ result.status = "returned"
    /\ i \in 1..Len(result.scheduled_tasks)
    /\ LET self == result.scheduled_tasks[i]
           task == CHOOSE t \in Range(Flatten([p \in 1..Len(user.pets) |->
                                                  user.pets[p].tasks])) :
                       t.task_id = self.task
           done == mark_complete(self, task, current_date, now)
       IN  /\ result' = [result EXCEPT !.scheduled_tasks[i] = done.self]
           /\ user' = WithTask(user, done.task)
           /\ ret' = [op |-> "mark_complete", index |-> i,
                      message |-> done.message]
    /\ UNCHANGED arg

\* the completion checkbox of the page cleared: st_task.status = "pending"
UncheckPlacement(i) ==
    /\ result.status = "returned"
    /\ i \in 1..Len(result.scheduled_tasks)
    /\ result.scheduled_tasks[i].status = "completed"
    /\ result' = [result EXCEPT !.scheduled_tasks[i].status = "pending"]
    /\ ret' = [op |-> "uncheck", index |-> i]
    /\ UNCHANGED <<user, arg>>

\* reschedule on the i-th placement of the schedule
ReschedulePlacement(i, new_start, new_end) ==
    /\ result.status = "returned"
    /\ i \in 1..Len(result.scheduled_tasks)
    /\ result' = [result EXCEPT !.scheduled_tasks[i] =
                      reschedule(result.scheduled_tasks[i], new_start, new_end)]
    /\ ret' = [op |-> "reschedule", index |-> i]
    /\ UNCHANGED <<user, arg>>

NextLife ==
    \/ \E date \in Dates : ScheduleTasks(date)
    \/ \E i \in 1..MaxTasks, current_date \in {NoDate, Ymd2Ord(2026, 2, 27)},
          now \in NowDates : CompletePlacement(i, current_date, now)
    \/ \E i \in 1..MaxTasks : UncheckPlacement(i)
    \/ \E i \in 1..MaxTasks, slot \in RescheduleSlots :
          ReschedulePlacement(i, slot[1], slot[2])

SpecLife == InitLife /\ [][NextLife]_vars

\* the calendar: leap years, the length of a month, the day after a day
IsLeap(y) == y % 4 = 0 /\ (y % 100 # 0 \/ y % 400 = 0)

DaysInMonth(y, m) ==
    IF m = 2 THEN (IF IsLeap(y) THEN 29 ELSE 28)
    ELSE IF m \in {4, 6, 9, 11} THEN 30 ELSE 31

NextDay(ymd) ==
    IF ymd[3] < DaysInMonth(ymd[1], ymd[2]) THEN <<ymd[1], ymd[2], ymd[3] + 1>>
    ELSE IF ymd[2] < 12 THEN <<ymd[1], ymd[2] + 1, 1>>
    ELSE <<ymd[1] + 1, 1, 1>>

\* C11: for a recurring task calculate_next_due_date(d) is the calendar day
\* after d when the pattern is daily and the second day after d when it is
\* every_other_day, also across the end of a month or of a year
C11_DailyAndEveryOtherDay ==
    (ret.op = "calculate_next_due_date" /\ arg.task.is_recurring) =>
        /\ arg.task.recurrence_pattern = "daily" =>
              Ord2Ymd(ret.value) = NextDay(Ord2Ymd(arg.current_date))
        /\ arg.task.recurrence_pattern = "every_other_day" =>
              Ord2Ymd(ret.value) = NextDay(NextDay(Ord2Ymd(arg.current_date)))

\* an every_other_day task completed on 2025-12-31 is due on 2026-01-02
C11_Witness ==
    /\ ret.op = "calculate_next_due_date"
    /\ arg.task.is_recurring
    /\ arg.task.recurrence_pattern = "every_other_day"
    /\ Ord2Ymd(arg.current_date) = <<2025, 12, 31>>
    /\ Ord2Ymd(ret.value) = <<2026, 1, 2>>

\* the weekday index of a date, counted from Monday 2026-02-23
WeekdayIndex(d) == (d - Ymd2Ord(2026, 2, 23) + 70000) % 7

\* C12: should_occur_on_date is true for every non-recurring task and every
\* daily task; for a weekly task it is true iff the date's weekday is in
\* recurrence_days, and every_other_day uses the same test as weekly
C12_OccursOnDate ==
    ret.op = "should_occur_on_date" =>
        ret.value = (\/ ~arg.task.is_recurring
                     \/ arg.task.recurrence_pattern = "daily"
                     \/ WeekdayIndex(arg.current_date) \in arg.task.recurrence_days)

\* an every_other_day task asked about a weekday outside its recurrence_days
C12_Witness ==
    /\ ret.op = "should_occur_on_date"
    /\ arg.task.is_recurring
    /\ arg.task.recurrence_pattern = "every_other_day"
    /\ arg.task.recurrence_days # {}
    /\ WeekdayIndex(arg.current_date) \notin arg.task.recurrence_days
    /\ ~ret.value

\* the completion date of the call recorded in ret
CompletedOn ==
    IF ret.current_date # NoDate THEN ret.current_date
    ELSE IF arg.self.scheduled_date # NoDate THEN arg.self.scheduled_date
    ELSE ret.now

\* C13: mark_complete sets the status to completed from any prior status,
\* also without a task reference; for a recurring task it stores
\* next_due_date = calculate_next_due_date(completion date) and the message
\* names that date; for a non-recurring task next_due_date is not changed
C13_MarkComplete ==
    ret.op = "mark_complete" =>
        /\ ret.self.status = "completed"
        /\ IF arg.self.task # NoTask /\ arg.task.is_recurring
           THEN /\ ret.task.next_due_date
                      = calculate_next_due_date(arg.task, CompletedOn)
                /\ ret.message.kind = "completed_next_due"
                /\ ret.message.next_due = ret.task.next_due_date
           ELSE /\ ret.task.next_due_date = arg.task.next_due_date
                /\ ret.message.kind = "completed"

\* a recurring task's placement in progress, scheduled for one date and
\* completed on another: completed, with a new next_due_date
C13_Witness ==
    /\ ret.op = "mark_complete"
    /\ arg.self.status = "in_progress"
    /\ arg.self.task # NoTask /\ arg.task.is_recurring
    /\ arg.self.scheduled_date # NoDate
    /\ ret.current_date # NoDate
    /\ ret.self.status = "completed"
    /\ ret.task.next_due_date # arg.task.next_due_date
    /\ ret.task.next_due_date
          # calculate_next_due_date(arg.task, arg.self.scheduled_date)

(***************************************************************************)
(* Properties of a schedule in use                                         *)
(***************************************************************************)
\* the step is mark_complete on the i-th placement
CompleteStep(i) ==
    \E current_date \in {NoDate, Ymd2Ord(2026, 2, 27)}, now \in NowDates :
        CompletePlacement(i, current_date, now)

\* C14: mark_complete changes nothing in the DailySchedule but the status of
\* the ScheduledTask it is called on: the list and order of placements, the
\* start and end times, the conflict list and the explanation stay as they are
C14_MarkCompleteFrame ==
    [][\A i \in 1..MaxTasks :
          CompleteStep(i) =>
              /\ result' = [result EXCEPT !.scheduled_tasks[i].status =
                                              result'.scheduled_tasks[i].status]
              /\ result'.conflicts = result.conflicts
              /\ result'.explanation = result.explanation]_vars

\* the second of two placements was completed and the first is still pending
C14_Witness ==
    /\ Returned
    /\ ret.op = "mark_complete"
    /\ Len(result.scheduled_tasks) = 2
    /\ result.scheduled_tasks[1].status = "pending"
    /\ result.scheduled_tasks[2].status = "completed"
    /\ result.explanation.scheduled = <<1, 2>>

\* which task is placed where: (task_id, start, end) of each placement
Placement(res) ==
    [k \in 1..Len(res.scheduled_tasks) |->
        <<res.scheduled_tasks[k].task_id, res.scheduled_tasks[k].start_time,
          res.scheduled_tasks[k].end_time>>]

\* the step works on the schedule at hand (schedule_tasks builds a new one)
OnSchedule == Returned /\ ret'.op # "none"

OccurringIds ==
    {t.task_id : t \in {u \in Range(UserTasks(user)) :
                           should_occur_on_date(u, result.date)}}

Minutes(t) == t.hour * 60 + t.minute

Nine == Time(9, 0)
Noon == Time(12, 0)

\* C16: the explanation lists as unable to schedule exactly the tasks that
\* occur on the date and whose id is not among the placed ids, each once, and
\* the "Unable to Schedule" section is in the text iff there is such a task
C16_UnableExact ==
    Returned =>
        /\ Range(result.explanation.unable) = OccurringIds \ PlacedIds
        /\ Len(result.explanation.unable) = Cardinality(OccurringIds \ PlacedIds)
        /\ result.explanation.unable_section <=> (OccurringIds \ PlacedIds # {})

\* window 9-12 and one non-medical task of 240 minutes: nothing is scheduled
\* and the notice names the task
C16_Witness ==
    /\ Returned
    /\ WindowStart = Nine /\ WindowEnd = Noon
    /\ Len(UserTasks(user)) = 1
    /\ UserTasks(user)[1].duration = 240
    /\ ~UserTasks(user)[1].is_medication
    /\ result.scheduled_tasks = <<>>
    /\ ~result.explanation.scheduled_section
    /\ result.explanation.unable_section
    /\ result.explanation.unable = <<UserTasks(user)[1].task_id>>

\* C17: every placement ends at its start plus the duration of its task in
\* minutes, the minutes carried into the hours
C17_EndIsStartPlusDuration ==
    \A st \in Placed :
        /\ Minutes(st.end_time) = Minutes(st.start_time)
                                     + TaskOf(user, st.task_id).duration
        /\ st.end_time.minute \in 0..59

\* a medical task of 240 minutes placed 09:00-13:00 in the window 9-12
C17_Witness ==
    /\ Returned
    /\ WindowEnd = Noon
    /\ \E st \in Placed :
          /\ TaskOf(user, st.task_id).is_medication
          /\ TaskOf(user, st.task_id).duration = 240
          /\ st.start_time = Nine
          /\ st.end_time = Time(13, 0)

\* a medical task occurs on the date of the run
MedicalOccurs ==
    \E t \in Range(UserTasks(user)) :
        t.is_medication /\ should_occur_on_date(t, result.date)

\* C18: when a medical task occurs on the date, the earliest task by time of
\* the generated schedule is medical and starts at the start of the window
C18_MedicalStartsTheDay ==
    (Returned /\ MedicalOccurs) =>
        /\ result.scheduled_tasks # <<>>
        /\ LET earliest == get_tasks_by_time(result.scheduled_tasks)[1]
           IN  /\ TaskOf(user, earliest.task_id).is_medication
               /\ earliest.start_time = WindowStart
               /\ \A st \in Placed : TimeLE(earliest.start_time, st.start_time)

\* a medical task of the lower priority and a non-medical task of the higher
\* one, the medical task in the second pet and placed first
C18_Witness ==
    /\ Returned
    /\ Len(result.scheduled_tasks) = 2
    /\ LET first == TaskOf(user, result.scheduled_tasks[1].task_id)
           second == TaskOf(user, result.scheduled_tasks[2].task_id)
       IN  /\ first.is_medication /\ ~second.is_medication
           /\ first.priority < second.priority
           /\ first.task_id > second.task_id
    /\ result.scheduled_tasks[1].start_time = WindowStart

\* C19: every ScheduledTask of a returned schedule ends strictly after it
\* starts, on the same day
C19_EndAfterStart ==
    \A st \in Placed :
        /\ TimeLT(st.start_time, st.end_time)
        /\ TimeValid(st.end_time.hour, st.end_time.minute)

\* a medical task placed in the window 22-23 and ending after the window
C19_Witness ==
    /\ Returned
    /\ WindowStart = Time(22, 0)
    /\ \E st \in Placed :
          /\ TimeLT(WindowEnd, st.end_time)
          /\ st.end_time.hour = 23

(***************************************************************************)
(* _parse_availability on availability lists written by hand: the first    *)
(* entry is made of parts joined by "-"                                    *)
(***************************************************************************)
MaxParts == 3

\* the parts an entry is made of: the text, what kind of text it is, and
\* the time of day it stands for when it is one
Part(text, class, value) == [text |-> text, class |-> class, value |-> value]

ParseParts ==
    { Part(<<"9">>, "ok", Time(9, 0)),
      Part(<<"1", "2">>, "ok", Time(12, 0)),
      Part(<<"0", "9", ":", "3", "0">>, "ok", Time(9, 30)),
      Part(<<" ", "2", "3", ":", "5", "9">>, "ok", Time(23, 59)),
      Part(<<>>, "non_numeric", Time(0, 0)),
      Part(<<"M", "o", "n">>, "non_numeric", Time(0, 0)),
      Part(<<"9", ":", "x">>, "non_numeric", Time(0, 0)),
      Part(<<"2", "4">>, "out_of_range", Time(0, 0)),
      Part(<<"2", "5", ":", "0", "0">>, "out_of_range", Time(0, 0)),
      Part(<<"9", ":", "6", "0">>, "out_of_range", Time(0, 0)) }

\* "-".join(texts)
RECURSIVE JoinDash(_)
JoinDash(parts) ==
    IF Len(parts) = 1 THEN parts[1].text
    ELSE JoinDash(SubSeq(parts, 1, Len(parts) - 1)) \o <<"-">> \o parts[Len(parts)].text

\* further entries of the list, after the first
MoreEntries == { <<>>, << <<"2", "2", "-", "2", "3">> >> }

InitParse ==
    /\ result = [status |-> "none"]
    /\ ret = NoCall
    /\ \/ /\ user = NoUser
          /\ arg = [op |-> "availability", parts |-> <<>>]
       \/ \E n \in 1..MaxParts : \E parts \in [1..n -> ParseParts] :
             \E more \in MoreEntries :
                /\ user = [availability |-> <<JoinDash(parts)>> \o more,
                           pets |-> <<>>]
                /\ arg = [op |-> "availability", parts |-> parts]

ParseAvailability ==
    /\ arg.op = "availability"
    /\ ret' = [op |-> "_parse_availability",
               value |-> _parse_availability(user.availability)]
    /\ UNCHANGED <<user, result, arg>>

NextParse == ParseAvailability

SpecParse == InitParse /\ [][NextParse]_vars

Parsed == ret.op = "_parse_availability"

FirstEntries ==
    { <<"9", "-", "1", "2">>,
      <<"2", "2", "-", "2", "3">>,
      <<"n", "o", "o", "n">> }

\* the entries after the first
LaterEntries ==
    { <<>>,
      << <<"0", "9", ":", "3", "0", "-", "1", "0", ":", "3", "0">> >>,
      << <<"S", "a", "t", ":", " ", "1", "0", "-", "1", "2">>,
         <<"1", "3", "-", "2", "3">> >> }

PairKinds ==
    [duration : Durations, priority : {3}, is_medication : BOOLEAN,
     preferred_time : PreferredTimes,
     recurrence : {[is_recurring |-> FALSE, recurrence_pattern |-> "daily",
                    recurrence_days |-> {}]}]

InitPair ==
    /\ \E first \in FirstEntries, later \in LaterEntries, other \in LaterEntries,
          n \in 0..MaxTasks :
          \E kinds \in [1..n -> PairKinds] :
             /\ user = [availability |-> <<first>> \o later,
                        pets |-> MkPets(kinds, FirstPetShare(n))]
             /\ arg = [op |-> "User",
                       user |-> [availability |-> <<first>> \o other,
                                 pets |-> MkPets(kinds, FirstPetShare(n))]]
    /\ result = [status |-> "none"]
    /\ ret = NoCall

\* TaskScheduler(user).schedule_tasks(date), TaskScheduler(other).schedule_tasks(date)
ScheduleBoth(date) ==
    /\ arg.op = "User"
    /\ result' = schedule_tasks(user, date)
    /\ ret' = [op |-> "schedule_tasks", value |-> schedule_tasks(arg.user, date)]
    /\ UNCHANGED <<user, arg>>

NextPair == \E date \in Dates : ScheduleBoth(date)

SpecPair == InitPair /\ [][NextPair]_vars

\* C21: two users that differ only in the availability entries after the
\* first get the same outcome of schedule_tasks for the same tasks and date:
\* the same placed tasks, start and end times and conflicts
C21_OnlyFirstEntryCounts ==
    ret.op = "schedule_tasks" =>
        /\ ret.value.status = result.status
        /\ Returned => /\ ret.value.scheduled_tasks = result.scheduled_tasks
                       /\ ret.value.conflicts = result.conflicts

\* the two users have different later entries, one of them a window that
\* would place nothing, and both got the same two placements
C21_Witness ==
    /\ ret.op = "schedule_tasks"
    /\ Returned
    /\ Len(user.availability) = 1
    /\ Len(arg.user.availability) = 3
    /\ Len(result.scheduled_tasks) = 2
    /\ ret.value.scheduled_tasks = result.scheduled_tasks
    /\ ret.value.explanation # result.explanation

(***************************************************************************)
(* schedule_tasks called again for the date of the schedule at hand, after *)
(* placements of it were completed                                         *)
(***************************************************************************)
ScheduleAgain ==
    /\ Called
    /\ result' = schedule_tasks(user, result.date)
    /\ ret' = [op |-> "schedule_tasks"]
    /\ UNCHANGED <<user, arg>>

NextAgain ==
    \/ \E date \in Dates : ScheduleTasks(date)
    \/ \E i \in 1..MaxTasks, current_date \in {NoDate, Ymd2Ord(2026, 2, 27)},
          now \in NowDates : CompletePlacement(i, current_date, now)
    \/ ScheduleAgain

SpecAgain == InitLife /\ [][NextAgain]_vars

\* the schedule as schedule_tasks returned it: every status "pending"
Fresh(res) ==
    IF res.status = "returned"
    THEN [res EXCEPT !.scheduled_tasks =
             [k \in 1..Len(res.scheduled_tasks) |->
                 [res.scheduled_tasks[k] EXCEPT !.status = "pending"]]]
    ELSE res

\* no Task carries a next due date: the user is as it was at the first call
NoDueDateStored ==
    \A t \in Range(UserTasks(user)) : t.next_due_date = NoDate

\* the step is a call of schedule_tasks
ScheduleStep == ret'.op \in {"none", "schedule_tasks"}

C30_CompletionNotConsulted ==
    [][(/\ ret.op = "mark_complete"
        /\ ret.message.kind = "completed_next_due"
        /\ ret'.op = "schedule_tasks")
          => /\ result' = Fresh(result)
             /\ result.scheduled_tasks[ret.index].task_id \in
                   {result'.scheduled_tasks[k].task_id :
                       k \in 1..Len(result'.scheduled_tasks)}]_vars

\* the new schedule places, as pending, a recurring task whose next due
\* date is after the date of the schedule
C30_Witness ==
    /\ ret.op = "schedule_tasks"
    /\ Returned
    /\ \E st \in Placed :
          /\ st.status = "pending"
          /\ TaskOf(user, st.task_id).is_recurring
          /\ TaskOf(user, st.task_id).next_due_date > result.date

(***************************************************************************)
(* Properties of get_tasks_in_time_range                                   *)
(***************************************************************************)
\* the task lies within the range from..to
Within(t, from, to) ==
    /\ ~TimeLT(t.start_time, from)
    /\ ~TimeLT(to, t.end_time)

\* C23: get_tasks_in_time_range(from, to) returns exactly the scheduled
\* tasks with start >= from and end <= to, each once, sorted by start time
C23_InRangeExact ==
    ret.op = "get_tasks_in_time_range" =>
        /\ \A t \in Range(arg.scheduled_tasks) :
              Count(ret.value, t) =
                  IF Within(t, ret.start_time, ret.end_time)
                  THEN Count(arg.scheduled_tasks, t) ELSE 0
        /\ Range(ret.value) \subseteq Range(arg.scheduled_tasks)
        /\ \A i \in 1..(Len(ret.value) - 1) :
              TimeLE(ret.value[i].start_time, ret.value[i + 1].start_time)

\* a task within the range is returned, and a task that starts in the range
\* and ends after it is left out
C23_Witness ==
    /\ ret.op = "get_tasks_in_time_range"
    /\ Len(ret.value) = 2
    /\ \E t \in Range(arg.scheduled_tasks) :
          /\ ~TimeLT(t.start_time, ret.start_time)
          /\ TimeLT(t.start_time, ret.end_time)
          /\ TimeLT(ret.end_time, t.end_time)
          /\ t \notin Range(ret.value)

(***************************************************************************)
(* Further properties of the recurrence calculator                         *)
(***************************************************************************)
\* C24: calculate_next_due_date returns no date for every task that is not
\* recurring, whatever its recurrence_pattern and recurrence_days
C24_NoDateWhenNotRecurring ==
    (ret.op = "calculate_next_due_date" /\ ~arg.task.is_recurring)
        => ret.value = NoDate

\* a task that is not recurring, with pattern weekly and a weekday set
C24_Witness ==
    /\ ret.op = "calculate_next_due_date"
    /\ ~arg.task.is_recurring
    /\ arg.task.recurrence_pattern = "weekly"
    /\ arg.task.recurrence_days = {0, 2, 4}
    /\ ret.value = NoDate

\* C29: a recurring task occurs on its own next due date, for the patterns
\* daily, weekly and every_other_day and for every recurrence_days set
C29_OccursOnNextDueDate ==
    ret.op = "occurs_on_next_due_date" => ret.value

(***************************************************************************)
(* UserDataManager: save_user writes the JSON document of a user under its *)
(* username, load_user builds the User from the document.  A document is a *)
(* record of the keys written; a dictionary is the set of its items; None  *)
(* is written as the empty value <<>>, a datetime as its isoformat()       *)
(***************************************************************************)
JsonNull == <<>>

\* datetime.isoformat() of a date held as ordinal: year, month and day, the
\* time of day being 00:00:00
isoformat(d) == Ord2Ymd(d)

\* datetime.fromisoformat
fromisoformat(iso) == Ymd2Ord(iso[1], iso[2], iso[3])

\* dict.get(key, default)
Get(doc, key, default) == IF key \in DOMAIN doc THEN doc[key] ELSE default

TaskDocument(task) ==
    [task_id |-> task.task_id,
     pet_id |-> task.pet_id,
     name |-> task.name,
     duration |-> task.duration,
     priority |-> task.priority,
     category |-> task.category,
     is_medication |-> task.is_medication,
     preferred_time |-> task.preferred_time,
     is_recurring |-> task.is_recurring,
     recurrence_pattern |-> task.recurrence_pattern,
     recurrence_days |-> task.recurrence_days,
     next_due_date |-> IF task.next_due_date # NoDate
                       THEN isoformat(task.next_due_date) ELSE JsonNull]

\* the task entry as files written before recurrence was stored have it
TaskDocumentWithoutRecurrence(task) ==
    [task_id |-> task.task_id,
     pet_id |-> task.pet_id,
     name |-> task.name,
     duration |-> task.duration,
     priority |-> task.priority,
     category |-> task.category,
     is_medication |-> task.is_medication,
     preferred_time |-> task.preferred_time]

PetDocument(pet, tasks) ==
    [pet_id |-> pet.pet_id,
     name |-> pet.name,
     species |-> pet.species,
     age |-> pet.age,
     health_info |-> pet.health_info,
     task_priorities |-> pet.task_priorities,
     user_preferences |-> pet.user_preferences,
     tasks |-> tasks]

\* save_user writing the task entries without the recurrence keys
SaveUserWithoutRecurrence(u) ==
    [username |-> u.username,
     password |-> u.password,
     availability |-> u.availability,
     preferences |-> u.preferences,
     pets |-> [p \in 1..Len(u.pets) |->
                  PetDocument(u.pets[p],
                      [k \in 1..Len(u.pets[p].tasks) |->
                          TaskDocumentWithoutRecurrence(u.pets[p].tasks[k])])]]

\* UserDataManager.save_user: the document written to <username>.json
save_user(u) ==
    [username |-> u.username,
     password |-> u.password,
     availability |-> u.availability,
     preferences |-> u.preferences,
     pets |-> [p \in 1..Len(u.pets) |->
                  PetDocument(u.pets[p],
                      [k \in 1..Len(u.pets[p].tasks) |->
                          TaskDocument(u.pets[p].tasks[k])])]]

LoadTask(task_data) ==
    [task_id |-> task_data.task_id,
     pet_id |-> task_data.pet_id,
     name |-> task_data.name,
     duration |-> task_data.duration,
     priority |-> task_data.priority,
     category |-> task_data.category,
     is_medication |-> task_data.is_medication,
     preferred_time |-> Get(task_data, "preferred_time", "flexible"),
     is_recurring |-> Get(task_data, "is_recurring", FALSE),
     recurrence_pattern |-> Get(task_data, "recurrence_pattern", "daily"),
     recurrence_days |-> Get(task_data, "recurrence_days", {}),
     next_due_date |-> IF Get(task_data, "next_due_date", JsonNull) # JsonNull
                       THEN fromisoformat(task_data.next_due_date) ELSE NoDate]

LoadPet(pet_data) ==
    [pet_id |-> pet_data.pet_id,
     name |-> pet_data.name,
     species |-> pet_data.species,
     age |-> pet_data.age,
     health_info |-> pet_data.health_info,
     task_priorities |-> Get(pet_data, "task_priorities", {}),
     user_preferences |-> Get(pet_data, "user_preferences", {}),
     tasks |-> LET tasks == Get(pet_data, "tasks", <<>>)
               IN  [k \in 1..Len(tasks) |-> LoadTask(tasks[k])]]

\* UserDataManager.load_user, of the document read from <username>.json
load_user(user_data) ==
    [username |-> user_data.username,
     password |-> user_data.password,
     availability |-> Get(user_data, "availability", <<>>),
     preferences |-> Get(user_data, "preferences", {}),
     pets |-> LET pets == Get(user_data, "pets", <<>>)
              IN  [p \in 1..Len(pets) |-> LoadPet(pets[p])]]

(***************************************************************************)
(* A user is saved and users are loaded by name                            *)
(***************************************************************************)
Usernames == {"ann", "bob"}

\* (is_recurring, recurrence_pattern, recurrence_days, next_due_date)
StoreKinds ==
    { <<FALSE, "daily", {}, NoDate>>,
      <<TRUE, "daily", {}, Ymd2Ord(2026, 1, 1)>>,
      <<TRUE, "weekly", {0, 2, 4}, NoDate>>,
      <<TRUE, "weekly", {0, 2, 4}, Ymd2Ord(2024, 2, 29)>>,
      <<TRUE, "every_other_day", {}, Ymd2Ord(2026, 3, 1)>>,
      <<FALSE, "weekly", {6}, NoDate>> }

StoreTask(kind, id, pet) ==
    [task_id |-> id,
     pet_id |-> pet,
     name |-> IF kind[1] THEN "Walk" ELSE "Pill",
     duration |-> 30,
     priority |-> IF kind[1] THEN 3 ELSE 5,
     category |-> IF kind[1] THEN "walk" ELSE "medication",
     is_medication |-> ~kind[1],
     preferred_time |-> IF kind[1] THEN "morning" ELSE "flexible",
     is_recurring |-> kind[1],
     recurrence_pattern |-> kind[2],
     recurrence_days |-> kind[3],
     next_due_date |-> kind[4]]

StorePet(id, name, tasks) ==
    [pet_id |-> id,
     name |-> name,
     species |-> "dog",
     age |-> 3 + id,
     health_info |-> "",
     task_priorities |-> {<<"walk", 3>>},
     user_preferences |-> {},
     tasks |-> tasks]

InitStore ==
    /\ \E username \in Usernames, n \in 0..MaxTasks :
          \E kinds \in [1..n -> StoreKinds] :
             user = [username |-> username,
                     password |-> "pw",
                     availability |-> << <<"9", "-", "1", "2">> >>,
                     preferences |-> {},
                     pets |-> << StorePet(1, "Rex",
                                    [i \in 1..FirstPetShare(n) |->
                                        StoreTask(kinds[i], i, 1)]),
                                 StorePet(2, "Tom",
                                    [i \in 1..(n - FirstPetShare(n)) |->
                                        StoreTask(kinds[FirstPetShare(n) + i],
                                                  FirstPetShare(n) + i, 2)]) >>]
    /\ result = [status |-> "none"]
    /\ arg = [op |-> "storage", files |-> <<>>]
    /\ ret = NoCall

\* save_user(user): the document is written to the file of the username
SaveUser ==
    /\ arg.op = "storage"
    /\ arg' = [arg EXCEPT !.files =
                  [name \in DOMAIN arg.files \cup {user.username} |->
                      IF name = user.username THEN save_user(user)
                      ELSE arg.files[name]]]
    /\ ret' = [op |-> "save_user"]
    /\ UNCHANGED <<user, result>>

\* load_user(username): None when there is no file of that name
LoadUser(username) ==
    /\ arg.op = "storage"
    /\ ret' = IF username \in DOMAIN arg.files
              THEN [op |-> "load_user", username |-> username, found |-> TRUE,
                    value |-> load_user(arg.files[username])]
              ELSE [op |-> "load_user", username |-> username, found |-> FALSE]
    /\ UNCHANGED <<user, result, arg>>

NextStore == SaveUser \/ \E username \in Usernames : LoadUser(username)

SpecStore == InitStore /\ [][NextStore]_vars

\* C25: save_user followed by load_user of the same username yields a User
\* whose pets and tasks have the same field values in the same order, with
\* is_recurring, recurrence_pattern, recurrence_days and next_due_date
C25_SaveLoadRoundTrip ==
    (/\ ret.op = "load_user"
     /\ ret.username = user.username
     /\ user.username \in DOMAIN arg.files)
        => /\ ret.found
           /\ ret.value.pets = user.pets
           /\ ret.value = user

\* a loaded user with a recurring task that has a next due date and a task
\* that has none
C25_Witness ==
    /\ ret.op = "load_user"
    /\ ret.found
    /\ ret.username = user.username
    /\ Len(ret.value.pets[1].tasks) = 1
    /\ Len(ret.value.pets[2].tasks) = 1
    /\ ret.value.pets[1].tasks[1].is_recurring
    /\ ret.value.pets[1].tasks[1].recurrence_days = {0, 2, 4}
    /\ ret.value.pets[1].tasks[1].next_due_date = Ymd2Ord(2024, 2, 29)
    /\ ret.value.pets[2].tasks[1].next_due_date = NoDate

(***************************************************************************)
(* Properties of the cursor of _fit_tasks_in_schedule                      *)
(***************************************************************************)
\* the tasks of the run in the order _fit_tasks_in_schedule goes through them
PrioritizedTasks == _prioritize_tasks(AllTasks(user, result.date))

\* the placement of the task
PlacementOf(id) == CHOOSE st \in Placed : st.task_id = id

\* the cursor when the loop reaches the j-th task: the end of the placed task
\* nearest before it, the window start when there is none
CursorAt(j) ==
    LET before == {k \in 1..(j - 1) : PrioritizedTasks[k].task_id \in PlacedIds}
    IN  IF before = {} THEN WindowStart
        ELSE PlacementOf(PrioritizedTasks[CHOOSE k \in before :
                                        \A l \in before : l <= k].task_id).end_time

\* C26: the cursor starts at the window start and moves only when a task is
\* placed: each placed task starts at the end of the task placed before it
\* in prioritized order, the first at the window start, and a task is
\* skipped only if it does not fit at the cursor it meets
C26_CursorMovesOnPlacementOnly ==
    Returned =>
        \A j \in 1..Len(PrioritizedTasks) :
            IF PrioritizedTasks[j].task_id \in PlacedIds
            THEN PlacementOf(PrioritizedTasks[j].task_id).start_time = CursorAt(j)
            ELSE /\ ~PrioritizedTasks[j].is_medication
                 /\ Minutes(CursorAt(j)) + PrioritizedTasks[j].duration
                       > Minutes(WindowEnd)

\* the first task in prioritized order was skipped and the second one, which
\* fits, is placed at the window start
C26_Witness ==
    /\ Returned
    /\ Len(PrioritizedTasks) = 2
    /\ PrioritizedTasks[1].task_id \notin PlacedIds
    /\ PrioritizedTasks[2].task_id \in PlacedIds
    /\ PlacementOf(PrioritizedTasks[2].task_id).start_time = WindowStart
    /\ TimeLE(PlacementOf(PrioritizedTasks[2].task_id).end_time, WindowEnd)

\* C28: every schedule that schedule_tasks returns has an empty conflict
\* list and no two of its placements overlap, also when medical tasks are
\* placed past the end of the window
C28_NoConflictsGenerated ==
    Returned =>
        /\ result.conflicts = <<>>
        /\ \A i, j \in 1..Len(result.scheduled_tasks) :
              i # j => \/ TimeLE(result.scheduled_tasks[i].end_time,
                                 result.scheduled_tasks[j].start_time)
                       \/ TimeLE(result.scheduled_tasks[j].end_time,
                                 result.scheduled_tasks[i].start_time)

\* two medical tasks, the first one ending after the window's end and the
\* second one placed behind it, and no conflict
C28_Witness ==
    /\ Returned
    /\ Len(result.scheduled_tasks) = 2
    /\ \A st \in Placed : TaskOf(user, st.task_id).is_medication
    /\ TimeLT(WindowEnd, result.scheduled_tasks[1].end_time)
    /\ result.scheduled_tasks[2].start_time = result.scheduled_tasks[1].end_time
    /\ result.conflicts = <<>>

(***************************************************************************)
(* Stability of _prioritize_tasks                                          *)
(***************************************************************************)
\* where the task with that id stands in the list
PositionOf(tasks, id) == CHOOSE k \in 1..Len(tasks) : tasks[k].task_id = id

\* the two tasks are in the same group and the sort of the group cannot tell
\* them apart
SameRank(a, b) ==
    /\ a.is_medication = b.is_medication
    /\ a.priority = b.priority
    /\ a.is_medication \/ time_order(a.preferred_time) = time_order(b.preferred_time)

=============================================================================
